---- MODULE Spec2Model ----
(***************************************************************************)
(* Model of the OAuth2 credential lifecycle of safe-gmail-mcp              *)
(* (src/src/auth/oauth.js): the interactive grant flow `authenticate`      *)
(* with its one-shot HTTP listener, deadline timer and `cleanup` guard.    *)
(*                                                                         *)
(* Node.js runs every callback to completion, so each action below is one  *)
(* callback (or one continuation after an `await`) of the source.          *)
(***************************************************************************)
EXTENDS Integers, Sequences, FiniteSets, TLC

(* ---------------------------------------------------------------- bounds *)
\* Clock steps the model lets pass.
MaxNow == 3
\* HTTP requests delivered to the listener in one run.
MaxRequests == 2
\* Client connections the listener has accepted and that are still open.
MaxConns == 1
\* Calls of refreshIfNeeded in one run.
MaxCalls == 2

(* ------------------------------------------------------------- constants *)
\* oauth.js:17  const OAUTH_TIMEOUT_MS = 5 * 60 * 1000;
OAUTH_TIMEOUT_MS == 5 * 60 * 1000
\* oauth.js:211  const expiryBuffer = 5 * 60 * 1000;
ExpiryBuffer == 5 * 60 * 1000
\* One step of the model clock is two and a half minutes of Date.now().
MsPerTick == 150 * 1000
\* Lifetime (seconds) the provider states in `expires_in`.
ExpiresIn == 60 * 60

\* A field that is undefined / absent in a JavaScript object.
NoValue == "undefined"
\* An absent numeric field (expiry_date).
NoNumber == 0 - 1

(* ------------------------------------------------------------ data model *)
\* The credentials object of OAuth2Client and the JSON written to disk.
EmptyCreds == [access_token |-> NoValue, refresh_token |-> NoValue, expiry_date |-> NoNumber]

\* Credential records that may be on disk before the call.
OldRecords ==
    { [access_token |-> "A0", refresh_token |-> r, expiry_date |-> 0] : r \in {NoValue, "R0"} }

\* JSON.stringify(tokens, null, 2): undefined-valued fields are dropped, the
\* rest is kept; the file then holds a JSON document.
JSONstringify(tokens) == [kind |-> "json", value |-> tokens]

FileAbsent == [kind |-> "absent", value |-> EmptyCreds]
FileCorrupt == [kind |-> "corrupt", value |-> EmptyCreds]

\* Fault variant: a file that does not parse still yields credentials.
LoadCredentialsAssumesStored(f) ==
    IF f.kind = "absent" THEN EmptyCreds
    ELSE IF f.kind = "json" THEN f.value
    ELSE [access_token |-> "A0", refresh_token |-> NoValue, expiry_date |-> NoNumber]

\* loadOAuthClient: credentials are set from the file when it exists and
\* parses; a missing or unparsable file leaves the client's credentials {}.
LoadCredentials(f) == IF f.kind = "json" THEN f.value ELSE EmptyCreds

\* What the token endpoint may answer to getToken(code).
Responses ==
    [ok : {TRUE}, access_token : {"A1"}, refresh_token : {NoValue, "R1"},
     expires_in : {NoNumber, ExpiresIn}]
    \cup
    { [ok |-> FALSE, access_token |-> NoValue, refresh_token |-> NoValue, expires_in |-> NoNumber] }

\* No answer of the token endpoint has arrived.
NoResponse ==
    [ok |-> FALSE, access_token |-> NoValue, refresh_token |-> NoValue, expires_in |-> 0]

\* google-auth-library getToken: expiry_date = Date.now() + expires_in * 1000
\* when the response carries expires_in, and no expiry_date otherwise.
TokensOf(resp, t) ==
    [access_token |-> resp.access_token,
     refresh_token |-> resp.refresh_token,
     expiry_date |-> IF resp.expires_in = NoNumber THEN NoNumber
                     ELSE t * MsPerTick + resp.expires_in * 1000]

\* Shapes of credentialsPath: "posix" is dir/credentials.json with '/'
\* separators, "bare" is credentials.json (parent is the working directory),
\* "backslash" is dir\credentials.json (path.join on Windows).
Paths == {"posix", "bare", "backslash"}

\* credentialsPath.substring(0, credentialsPath.lastIndexOf('/')): non-empty
\* only when the path holds a '/' after its first character.
DirOf(p) == IF p = "posix" THEN "dir" ELSE ""

\* HTTP requests: the path of req.url and its query parameters.  A query
\* parameter is absent (searchParams.get gives null), empty or non-empty.
ParamValues(v) == {NoValue, "", v}
CallbackRequests ==
    [path : {"/oauth2callback"}, error : ParamValues("access_denied"), code : ParamValues("c1")]
OtherRequests ==
    { [path |-> "/oauth2callback-x", error |-> "access_denied", code |-> NoValue],
      [path |-> "/favicon.ico", error |-> NoValue, code |-> NoValue] }
Requests == CallbackRequests \cup OtherRequests
NoRequest == [path |-> "none", error |-> NoValue, code |-> NoValue]

\* req.url?.startsWith('/oauth2callback')
StartsWithCallback(path) == path \in {"/oauth2callback", "/oauth2callback-x"}

\* JavaScript truthiness of a string-or-null: null and '' are falsy.
Truthy(v) == v # NoValue /\ v # ""

Terminal == {"granted", "AuthDenied", "AuthMalformedCallback", "AuthTimeout",
             "TokenExchangeFailed", "ListenerFault"}

(* ----------------------------------------------------------------- state *)
VARIABLES
    now,          \* Date.now(), in clock steps of MsPerTick
    path,         \* credentialsPath argument
    parentExists, \* the directory that holds credentialsPath exists
    portBusy,     \* the port argument is bound by someone else
    srv,          \* http server: "created", "listening", "closed"
    conns,        \* open client connections accepted by the server
    timer,        \* timeoutId: "unset", "armed", "fired", "cleared"
    armedAt,      \* value of now when setTimeout was called
    isResolved,   \* the guard flag of cleanup
    outcome,      \* state of the promise authenticate returns
    signals,      \* calls of resolve/reject made by cleanup
    urlEmitted,   \* the consent URL was printed/opened
    inflight,     \* request handlers suspended at await getToken
    creds,        \* oauth2Client.credentials
    file,         \* content of credentialsPath
    file0,        \* content of credentialsPath when authenticate was called
    exchanges,    \* calls of getToken started
    writes,       \* completed fs.writeFileSync calls
    nreq,         \* requests delivered to the 'request' handler
    handled,      \* of these, requests that passed the path check
    firstCb,      \* first request that passed the path check, and whether the
                  \* session was pending when it was handled
    status,       \* latest HTTP status written with res.writeHead
    rpc,          \* refreshIfNeeded: "idle" or "awaiting" refreshAccessToken
    rresult,      \* what the latest refreshIfNeeded call returned or threw
    rec0,         \* oauth2Client.credentials when that call began
    callAt,       \* value of now when that call began
    rexch,        \* refreshAccessToken calls made by that call
    rwrites,      \* completed fs.writeFileSync calls made by that call
    rresp,        \* the answer refreshAccessToken got in that call, if any
    calls,        \* refreshIfNeeded calls begun
    entry,        \* the entry point this process runs and its command
    keys,         \* shape of the OAuth key file at oauthPath
    bound,        \* candidate port -> bound by another process
    umask,        \* file-creation mask of the process
    mode,         \* permission bits of the credential file
    mpc,          \* position of the entry point's main()
    idx,          \* index in OAUTH_PORTS of the candidate under probe
    probed,       \* candidates isPortAvailable was called for, in order
    held,         \* ports a probe listener of this process has bound
    port,         \* port returned by findAvailablePort (0: none)
    callbackPort, \* port in the redirect URL the OAuth2 client was built with
    mresult,      \* how main() ended, or the error loadOAuthClient threw
    authCalls,    \* calls of authenticate made by this process
    gateCalls,    \* calls of refreshIfNeeded made by this process
    serving,      \* the tool server was connected to its transport
    url,          \* consent URL generated by authenticate
    listenPort,   \* port authenticate's callback listener is bound to
    batch,        \* the batch_modify_emails call and its processBatches loop
    mail          \* the send_email calls: arguments, message, deliveries

vars == <<now, path, parentExists, portBusy, srv, conns, timer, armedAt,
          isResolved, outcome, signals, urlEmitted, inflight, creds, file, file0,
          exchanges, writes, nreq, handled, firstCb, status,
          rpc, rresult, rec0, callAt, rexch, rwrites, rresp, calls,
          entry, keys, bound, umask, mode, mpc, idx, probed, held, port,
          callbackPort, mresult, authCalls, gateCalls, serving, url, listenPort,
          batch, mail>>

\* The tool handlers' state, untouched by the OAuth code.
toolVars == <<batch, mail>>

envVars == <<path, portBusy, file0>>
sessionVars == <<isResolved, timer, srv, outcome, signals>>
storeVars == <<creds, file, parentExists, writes>>
reqVars == <<nreq, handled, firstCb>>
refreshVars == <<rpc, rresult, rec0, callAt, rexch, rwrites, rresp, calls>>
mainVars == <<entry, keys, bound, umask, mode, mpc, idx, probed, held, port,
              callbackPort, mresult, authCalls, gateCalls, serving, url, listenPort,
              toolVars>>

\* No refreshIfNeeded call has begun.
RefreshIdle ==
    /\ rpc = "idle"
    /\ rresult = "none"
    /\ rec0 = EmptyCreds
    /\ callAt = 0
    /\ rexch = 0
    /\ rwrites = 0
    /\ rresp = NoResponse
    /\ calls = 0

\* Candidate ports of the callback listener, in the order they are tried.
OAUTH_PORTS == <<3000, 3001, 3002>>
Ports == { OAUTH_PORTS[i] : i \in DOMAIN OAUTH_PORTS }

\* No consent URL has been generated.
NoUrl == [redirect |-> 0, scope |-> {}, access_type |-> NoValue, prompt |-> NoValue]

\* No entry point is running.
MainIdle ==
    /\ entry = "none"
    /\ keys = "absent"
    /\ bound = [p \in Ports |-> FALSE]
    /\ umask = "077"
    /\ mode = "none"
    /\ mpc = "idle"
    /\ idx = 0
    /\ probed = << >>
    /\ held = {}
    /\ port = 0
    /\ callbackPort = 0
    /\ mresult = "none"
    /\ authCalls = 0
    /\ gateCalls = 0
    /\ serving = FALSE
    /\ url = NoUrl
    /\ listenPort = 0

\* No batch_modify_emails call has been made.
BatchIdle ==
    [pc |-> "idle", n |-> 0, raw |-> [kind |-> "absent", value |-> 0],
     batchSize |-> 0, i |-> 0, turn |-> 0,
     attempted |-> {}, successes |-> {}, failures |-> {}]

\* No send_email call has been made.
MailIdle ==
    [pc |-> "idle", args |-> [to |-> << >>, cc |-> << >>, bcc |-> << >>],
     message |-> {}, delivered |-> {}, result |-> "none", calls |-> 0]

\* No tool request is being handled.
ToolIdle == batch = BatchIdle /\ mail = MailIdle

InitialFiles == {FileAbsent, FileCorrupt} \cup { JSONstringify(r) : r \in OldRecords }

Init ==
    /\ now = 0
    /\ path \in Paths
    /\ file \in InitialFiles
    /\ file0 = file
    \* an existing file has a parent directory; a bare file name lives in
    \* the working directory
    /\ parentExists \in (IF file.kind # "absent" \/ path = "bare" THEN {TRUE} ELSE BOOLEAN)
    /\ portBusy \in BOOLEAN
    /\ creds = LoadCredentials(file)
    /\ srv = "created"
    /\ conns = 0
    /\ timer = "unset"
    /\ armedAt = 0
    /\ isResolved = FALSE
    /\ outcome = "pending"
    /\ signals = 0
    /\ urlEmitted = FALSE
    /\ inflight = 0
    /\ exchanges = 0
    /\ writes = 0
    /\ nreq = 0
    /\ handled = 0
    /\ firstCb = [req |-> NoRequest, pending |-> FALSE]
    /\ status = 0
    /\ RefreshIdle
    /\ MainIdle
    /\ ToolIdle

(* --------------------------------------------------------------- cleanup *)
\* clearTimeout(timeoutId): a timer that has not run yet never runs.
ClearTimeout(t) == IF t = "armed" THEN "cleared" ELSE t

\* Fault variant of cleanup: the isResolved guard is missing.
CleanupUnguarded(result, t) ==
    /\ isResolved' = TRUE
    /\ timer' = ClearTimeout(t)
    /\ srv' = "closed"
    /\ outcome' = IF outcome = "pending" THEN result ELSE outcome
    /\ signals' = signals + 1

\* Fault variant of cleanup: clearTimeout and server.close() are missing.
CleanupNoRelease(result, t) ==
    IF isResolved
    THEN /\ timer' = t
         /\ UNCHANGED <<isResolved, srv, outcome, signals>>
    ELSE /\ isResolved' = TRUE
         /\ timer' = t
         /\ srv' = srv
         /\ outcome' = IF outcome = "pending" THEN result ELSE outcome
         /\ signals' = signals + 1

\* cleanup(error, success): the first call clears the timer, closes the
\* server and settles the promise; later calls return at once.  `t` is the
\* state of the timer when cleanup is called ("fired" inside the timer's own
\* callback).  A promise keeps the first value it is settled with.
Cleanup(result, t) ==
    IF isResolved
    THEN /\ timer' = t
         /\ UNCHANGED <<isResolved, srv, outcome, signals>>
    ELSE /\ isResolved' = TRUE
         /\ timer' = ClearTimeout(t)
         /\ srv' = "closed"
         /\ outcome' = IF outcome = "pending" THEN result ELSE outcome
         /\ signals' = signals + 1

(* --------------------------------------------------------------- actions *)
\* Fault variant of the bind: the deadline timer is never armed.
ListenNoDeadline ==
    /\ srv = "created"
    /\ outcome = "pending"
    /\ IF portBusy
       THEN /\ outcome' = "PortInUse"
            /\ signals' = signals + 1
            /\ UNCHANGED <<srv, timer, armedAt, urlEmitted>>
       ELSE /\ srv' = "listening"
            /\ armedAt' = now
            /\ urlEmitted' = TRUE
            /\ UNCHANGED <<timer, outcome, signals>>
    /\ UNCHANGED <<now, envVars, refreshVars, mainVars, conns, isResolved, inflight, exchanges, status>>
    /\ UNCHANGED <<storeVars, reqVars>>

\* Fault variant of the bind: the timer is armed and the consent URL emitted
\* before the result of server.listen is known.
ListenArmsFirst ==
    /\ srv = "created"
    /\ outcome = "pending"
    /\ timer' = "armed"
    /\ armedAt' = now
    /\ urlEmitted' = TRUE
    /\ IF portBusy
       THEN /\ outcome' = "PortInUse"
            /\ signals' = signals + 1
            /\ UNCHANGED srv
       ELSE /\ srv' = "listening"
            /\ UNCHANGED <<outcome, signals>>
    /\ UNCHANGED <<now, envVars, refreshVars, mainVars, conns, isResolved, inflight, exchanges, status>>
    /\ UNCHANGED <<storeVars, reqVars>>

\* server.listen(port): on success the promise executor runs in the same
\* turn (timer armed, consent URL emitted, handlers attached); on failure
\* authenticate rejects before any of that.
Listen ==
    /\ srv = "created"
    /\ outcome = "pending"
    /\ IF portBusy
       THEN /\ outcome' = "PortInUse"
            /\ signals' = signals + 1
            /\ UNCHANGED <<srv, timer, armedAt, urlEmitted>>
       ELSE /\ srv' = "listening"
            /\ timer' = "armed"
            /\ armedAt' = now
            /\ urlEmitted' = TRUE
            /\ UNCHANGED <<outcome, signals>>
    /\ UNCHANGED <<now, envVars, refreshVars, mainVars, conns, isResolved, inflight, exchanges, status>>
    /\ UNCHANGED <<storeVars, reqVars>>

\* Time passes.
Tick ==
    /\ now < MaxNow
    /\ now' = now + 1
    /\ UNCHANGED <<envVars, refreshVars, mainVars, sessionVars, storeVars, reqVars, conns, armedAt,
                   urlEmitted, inflight, exchanges, status>>

\* Fault variant of the deadline: the timer may run as soon as it is set.
TimerDueAtOnce == now >= armedAt

\* The deadline is due when OAUTH_TIMEOUT_MS have passed since setTimeout.
TimerDue == (now - armedAt) * MsPerTick >= OAUTH_TIMEOUT_MS

\* The result the timer callback hands to cleanup.
TimeoutResult == "AuthTimeout"

\* setTimeout callback: cleanup(new Error('... timed out ...')).
TimerFire ==
    /\ timer = "armed"
    /\ TimerDue
    /\ Cleanup(TimeoutResult, "fired")
    /\ UNCHANGED <<now, envVars, refreshVars, mainVars, storeVars, reqVars, conns, armedAt, urlEmitted,
                   inflight, exchanges, status>>

\* A client connects; only a listening server accepts.
Accept ==
    /\ srv = "listening"
    /\ conns < MaxConns
    /\ conns' = conns + 1
    /\ UNCHANGED <<now, envVars, refreshVars, mainVars, sessionVars, storeVars, reqVars, armedAt,
                   urlEmitted, inflight, exchanges, status>>

\* A connection ends (the client leaves, or the server drops it).
Disconnect ==
    /\ conns > 0
    /\ conns' = conns - 1
    /\ UNCHANGED <<now, envVars, refreshVars, mainVars, sessionVars, storeVars, reqVars, armedAt,
                   urlEmitted, inflight, exchanges, status>>

\* Fault variant of the handler: `code` is looked at before `error`.
ClassifyCodeFirst(r) ==
    IF ~StartsWithCallback(r.path) THEN "notfound"
    ELSE IF Truthy(r.code) THEN "exchange"
    ELSE IF Truthy(r.error) THEN "denied"
    ELSE "malformed"

\* Which branch the request handler takes for a request.
Classify(r) ==
    IF ~StartsWithCallback(r.path) THEN "notfound"
    ELSE IF Truthy(r.error) THEN "denied"
    ELSE IF ~Truthy(r.code) THEN "malformed"
    ELSE "exchange"

\* server.on('request', ...) up to its first await.  server.close() stops
\* the server from accepting connections and keeps the open ones, so a
\* request may still be delivered on an open connection after cleanup.
Request(r) ==
    /\ conns > 0
    /\ nreq < MaxRequests
    /\ nreq' = nreq + 1
    /\ LET branch == Classify(r) IN
       /\ handled' = IF branch = "notfound" THEN handled ELSE handled + 1
       /\ firstCb' = IF branch # "notfound" /\ handled = 0
                     THEN [req |-> r, pending |-> ~isResolved]
                     ELSE firstCb
       /\ IF branch = "notfound"
          THEN /\ status' = 404
               /\ UNCHANGED <<sessionVars, inflight, exchanges>>
          ELSE IF branch = "denied"
          THEN /\ status' = 400
               /\ Cleanup("AuthDenied", timer)
               /\ UNCHANGED <<inflight, exchanges>>
          ELSE IF branch = "malformed"
          THEN /\ status' = 400
               /\ Cleanup("AuthMalformedCallback", timer)
               /\ UNCHANGED <<inflight, exchanges>>
          ELSE /\ inflight' = inflight + 1
               /\ exchanges' = exchanges + 1
               /\ UNCHANGED <<sessionVars, status>>
    /\ UNCHANGED <<now, envVars, refreshVars, mainVars, storeVars, conns, armedAt, urlEmitted>>

\* The handler's continuation after `await oauth2Client.getToken(code)`:
\* setCredentials, mkdirSync when the computed dir is missing, writeFileSync,
\* then cleanup(null, true); any throw lands in the catch block
\* (writeFileSync throws when the directory of the file does not exist).
ExchangeDone(resp) ==
    /\ inflight > 0
    /\ inflight' = inflight - 1
    /\ IF ~resp.ok
       THEN /\ status' = 500
            /\ Cleanup("TokenExchangeFailed", timer)
            /\ UNCHANGED storeVars
       ELSE LET tokens == TokensOf(resp, now)
                mk == DirOf(path) # "" /\ ~parentExists
                parentAfter == parentExists \/ mk
                written == parentAfter
            IN /\ creds' = tokens
               /\ parentExists' = parentAfter
               /\ IF written
                  THEN /\ file' = JSONstringify(tokens)
                       /\ writes' = writes + 1
                       /\ status' = 200
                       /\ Cleanup("granted", timer)
                  ELSE /\ UNCHANGED <<file, writes>>
                       /\ status' = 500
                       /\ Cleanup("TokenExchangeFailed", timer)
    /\ UNCHANGED <<now, envVars, refreshVars, mainVars, reqVars, conns, armedAt, urlEmitted, exchanges>>

\* server.on('error', err => cleanup(err)) while the server is listening.
ListenerError ==
    /\ srv = "listening"
    /\ Cleanup("ListenerFault", timer)
    /\ UNCHANGED <<now, envVars, refreshVars, mainVars, storeVars, reqVars, conns, armedAt, urlEmitted,
                   inflight, exchanges, status>>

Next ==
    \/ Listen
    \/ Tick
    \/ TimerFire
    \/ Accept
    \/ Disconnect
    \/ \E r \in Requests : Request(r)
    \/ \E resp \in Responses : ExchangeDone(resp)
    \/ ListenerError

Spec == Init /\ [][Next]_vars

\* A session on a first grant: no record is stored yet.
FairInit == Init /\ file = FileAbsent

\* The session under fairness of the clock and of the deadline timer: time
\* passes, and the event loop runs a timer that is due. Nothing is assumed
\* of the browser or of the token endpoint: a callback may never arrive and
\* a started exchange may never complete.
FairSpec == FairInit /\ [][Next]_vars /\ WF_vars(Tick) /\ WF_vars(TimerFire)

(* ------------------------------------------------------- refreshIfNeeded *)
\* Expiry timestamps a stored record may carry: absent, the epoch, and
\* whole clock steps up to past every lookahead the clock can reach.
MaxExpiryTicks == MaxNow + 3
ExpiryValues == {NoNumber} \cup { k * MsPerTick : k \in 0..MaxExpiryTicks }

\* Records the credential file may hold when the client is loaded.
StoredRecords ==
    [access_token : {NoValue, "A0"}, refresh_token : {NoValue, "R0"},
     expiry_date : ExpiryValues]

StoredFiles == {FileAbsent, FileCorrupt} \cup { JSONstringify(r) : r \in StoredRecords }

\* A file cut short by a write that did not complete.
FilePartial == [kind |-> "partial", value |-> EmptyCreds]

\* How fs.writeFileSync(path, data) may end: it completes; it throws before
\* the file is opened (file untouched); it throws, or the process dies,
\* after the file was opened for writing and truncated.
WriteEnds == {"none", "before", "midway"}

\* Fault variant: an absent expiry_date is not taken as expired (the
\* comparison with undefined is false).
NeedsRefreshIgnoresAbsent(c, t) ==
    /\ c.expiry_date # NoNumber
    /\ t * MsPerTick >= c.expiry_date - ExpiryBuffer

\* Fault variant: every record is refreshed.
NeedsRefreshAlways(c, t) == TRUE

\* Fault variant: the lookahead boundary is excluded.
NeedsRefreshStrict(c, t) ==
    \/ c.expiry_date = NoNumber
    \/ c.expiry_date = 0
    \/ t * MsPerTick > c.expiry_date - ExpiryBuffer

\* !expiryDate || Date.now() >= expiryDate - expiryBuffer
\* (!expiryDate holds for undefined and for 0).
NeedsRefresh(c, t) ==
    \/ c.expiry_date = NoNumber
    \/ c.expiry_date = 0
    \/ t * MsPerTick >= c.expiry_date - ExpiryBuffer

\* Fault variant: the access token is not checked.
RefreshDecisionNoAccessCheck(c, t) ==
    IF NeedsRefresh(c, t)
    THEN IF ~Truthy(c.refresh_token) THEN "RefreshTokenMissing" ELSE "refresh"
    ELSE "false"

\* Fault variant: the refresh token is not checked.
RefreshDecisionNoTokenCheck(c, t) ==
    IF ~Truthy(c.access_token) THEN "NoCredentials"
    ELSE IF NeedsRefresh(c, t) THEN "refresh"
    ELSE "false"

\* refreshIfNeeded up to its await: throw, return false, or refresh.
RefreshDecision(c, t) ==
    IF ~Truthy(c.access_token) THEN "NoCredentials"
    ELSE IF NeedsRefresh(c, t)
    THEN IF ~Truthy(c.refresh_token) THEN "RefreshTokenMissing" ELSE "refresh"
    ELSE "false"

\* Fault variant: the refreshed record is the provider's response alone.
RefreshedCredentialsNoMerge(resp, old, t) == TokensOf(resp, t)

\* oauth2Client.refreshAccessToken() of google-auth-library: the tokens of
\* the response (expiry_date computed as for getToken) with refresh_token
\* set to the one the client held; they become the client's credentials.
RefreshedCredentials(resp, old, t) ==
    [TokensOf(resp, t) EXCEPT !.refresh_token = old.refresh_token]

authOnlyVars == <<path, parentExists, portBusy, srv, conns, timer, armedAt,
                  isResolved, outcome, signals, urlEmitted, inflight, exchanges,
                  writes, nreq, handled, firstCb, status>>

\* The state in which main / the status command call refreshIfNeeded: the
\* client was just loaded from the credential file, no grant flow is running.
RefreshInit ==
    /\ now = 0
    /\ path = "posix"
    /\ parentExists = TRUE
    /\ portBusy = FALSE
    /\ file \in StoredFiles
    /\ file0 = file
    /\ creds = LoadCredentials(file)
    /\ srv = "created"
    /\ conns = 0
    /\ timer = "unset"
    /\ armedAt = 0
    /\ isResolved = FALSE
    /\ outcome = "pending"
    /\ signals = 0
    /\ urlEmitted = FALSE
    /\ inflight = 0
    /\ exchanges = 0
    /\ writes = 0
    /\ nreq = 0
    /\ handled = 0
    /\ firstCb = [req |-> NoRequest, pending |-> FALSE]
    /\ status = 0
    /\ RefreshIdle
    /\ MainIdle
    /\ ToolIdle

\* refreshIfNeeded(oauth2Client, credentialsPath) from its entry to its first
\* await (or to its return / throw when it does not refresh).
RefreshCall ==
    /\ rpc = "idle"
    /\ calls < MaxCalls
    /\ calls' = calls + 1
    /\ rec0' = creds
    /\ callAt' = now
    /\ file0' = file
    /\ rwrites' = 0
    /\ rresp' = NoResponse
    /\ LET d == RefreshDecision(creds, now) IN
       IF d = "refresh"
       THEN /\ rpc' = "awaiting"
            /\ rresult' = "pending"
            /\ rexch' = 1
       ELSE /\ rpc' = "idle"
            /\ rresult' = d
            /\ rexch' = 0
    /\ UNCHANGED <<now, creds, file, authOnlyVars, mainVars>>

\* Fault variant of the catch block: the refresh is tried again.
OnRefreshRejectedRetry ==
    /\ rpc' = "awaiting"
    /\ rresult' = "pending"
    /\ rexch' = rexch + 1
    /\ UNCHANGED <<creds, file, rwrites>>

\* refreshAccessToken rejected: the catch block throws 'Failed to refresh
\* token ...'; credentials and file are as they were.
OnRefreshRejected ==
    /\ rpc' = "idle"
    /\ rresult' = "RefreshFailed"
    /\ UNCHANGED <<creds, file, rexch, rwrites>>

\* The continuation after `await oauth2Client.refreshAccessToken()`:
\* setCredentials(newCredentials), writeFileSync, return true; a throw of
\* writeFileSync lands in the same catch block.
RefreshDone(resp, w) ==
    /\ rpc = "awaiting"
    /\ rresp' = resp
    /\ IF ~resp.ok
       THEN /\ w = "none"
            /\ OnRefreshRejected
       ELSE LET newc == RefreshedCredentials(resp, creds, now) IN
            /\ creds' = newc
            /\ rpc' = "idle"
            /\ rexch' = rexch
            /\ IF w = "none"
               THEN /\ file' = JSONstringify(newc)
                    /\ rwrites' = rwrites + 1
                    /\ rresult' = "true"
               ELSE /\ file' = IF w = "midway" THEN FilePartial ELSE file
                    /\ rwrites' = rwrites
                    /\ rresult' = "RefreshFailed"
    /\ UNCHANGED <<now, rec0, callAt, calls, file0, authOnlyVars, mainVars>>

RefreshNext ==
    \/ Tick
    \/ RefreshCall
    \/ \E resp \in Responses, w \in WriteEnds : RefreshDone(resp, w)

RefreshSpec == RefreshInit /\ [][RefreshNext]_vars

(* ---------------------------------------------------------------- claims *)
\* Steps of the 'request' handler for a request to the reserved path.
CallbackStep == \E r \in CallbackRequests : Request(r)

\* C1: once the listener is bound, the outcome leaves "pending" at most once
\* and never changes afterwards, and cleanup signals the caller (resolve or
\* reject) exactly once with it: never twice, and always together with the
\* outcome, whatever the order of requests, exchange completions, listener
\* errors and the deadline.
C1_OutcomeOnce ==
    [][ srv' # "created" =>
          /\ (outcome # "pending" => outcome' = outcome)
          /\ signals' <= 1
          /\ ((outcome' \in Terminal) <=> (signals' = 1)) ]_vars

\* C1 witness: the deadline fired while an exchange was in flight and the
\* exchange completed afterwards (a second call of cleanup).
C1_Witness ==
    /\ outcome = "AuthTimeout"
    /\ exchanges = 1
    /\ inflight = 0
    /\ signals = 1

\* C2 (as stated): a callback request handled after the deadline has fired
\* changes nothing (no exchange started, no credential write, no second
\* resolution), and the deadline does not fire once the session is complete.
C2_DeadlineDisablesCallback ==
    [][ /\ (timer = "fired" /\ CallbackStep) =>
              UNCHANGED <<outcome, signals, exchanges, inflight, creds, file, writes>>
        /\ (outcome \in Terminal /\ timer # "fired") => timer' # "fired" ]_vars

\* C3 (as stated): a request to the callback path handled after a first
\* request has resolved the session starts no exchange, writes nothing,
\* leaves the in-memory credentials and the signalled outcome alone.
C3_SecondCallbackNoEffect ==
    [][ (/\ outcome \in {"granted", "AuthDenied", "AuthMalformedCallback", "TokenExchangeFailed"}
         /\ handled >= 1
         /\ CallbackStep) =>
           UNCHANGED <<outcome, signals, exchanges, inflight, creds, file, writes>> ]_vars

\* C4 (as stated): whenever authenticate has failed, the credential file
\* holds what it held before the call.
C4_FailureLeavesFile ==
    (outcome \in Terminal \ {"granted"}) => file = file0

\* C5 (as stated): when the first callback request handled carries a
\* (non-empty) error parameter while the session is awaiting its callback,
\* authenticate fails with AuthDenied, no token exchange is attempted and the
\* credential file is left untouched.
C5_DeniedFirst ==
    (/\ firstCb.req.path = "/oauth2callback"
     /\ Truthy(firstCb.req.error)
     /\ firstCb.pending) =>
        /\ outcome = "AuthDenied"
        /\ exchanges = 0
        /\ file = file0

\* C6: whenever authenticate has reached a terminal outcome, the listener is
\* closed and the deadline timer is no longer pending.
C6_Released ==
    outcome \in Terminal => (srv = "closed" /\ timer \in {"fired", "cleared"})

\* C6 witness: a granted session with the listener closed and the timer
\* cancelled.
C6_Witness ==
    /\ outcome = "granted"
    /\ srv = "closed"
    /\ timer = "cleared"

\* C7 (as stated): the record persisted on a grant is the exchange's record,
\* except that a refresh token the response omits is taken from the record
\* stored before.
C7_PersistedRecord ==
    [][ \A resp \in Responses :
          (ExchangeDone(resp) /\ writes' = writes + 1) =>
             LET t == TokensOf(resp, now)
                 prev == LoadCredentials(file)
             IN file' = JSONstringify(
                    [t EXCEPT !.refresh_token =
                        IF t.refresh_token = NoValue THEN prev.refresh_token
                        ELSE t.refresh_token]) ]_vars

\* C8 (as stated): when the exchange of the single code callback handled
\* succeeds with an access token, a refresh token and an expiry,
\* authenticate succeeds, the file holds exactly that
\* record and the parent directory exists.
C8_GrantPersisted ==
    [][ \A resp \in Responses :
          (/\ ExchangeDone(resp)
           /\ resp.ok
           /\ resp.refresh_token # NoValue
           /\ resp.expires_in # NoNumber
           /\ handled = 1
           /\ exchanges = 1) =>
             /\ outcome' = "granted"
             /\ file' = JSONstringify(TokensOf(resp, now))
             /\ parentExists' ]_vars

\* C9: when the deadline timer has run and no callback request had been
\* handled, authenticate has failed with AuthTimeout, and the timer ran no
\* earlier than OAUTH_TIMEOUT_MS after it was set.
C9_Timeout ==
    (timer = "fired" /\ handled = 0) =>
        /\ outcome = "AuthTimeout"
        /\ (now - armedAt) * MsPerTick >= OAUTH_TIMEOUT_MS

\* C9 witness: the deadline fired before any callback request.
C9_Witness ==
    /\ timer = "fired"
    /\ handled = 0
    /\ outcome = "AuthTimeout"

\* C10 (as stated): a callback request handled while the session is pending
\* is DENIED when an error parameter is present, else moves to EXCHANGING when
\* a code parameter is present, else fails with AuthMalformedCallback.
C10_ClassifyPresent ==
    [][ \A r \in CallbackRequests :
          (Request(r) /\ ~isResolved) =>
             IF r.error # NoValue
             THEN outcome' = "AuthDenied" /\ exchanges' = exchanges
             ELSE IF r.code # NoValue
             THEN outcome' = "pending" /\ exchanges' = exchanges + 1
                  /\ inflight' = inflight + 1
             ELSE outcome' = "AuthMalformedCallback" /\ exchanges' = exchanges ]_vars

\* C10 (amended): the same with "present" read as "present and non-empty":
\* a non-empty error parameter gives DENIED (also next to a code); otherwise
\* a non-empty code starts the exchange; otherwise (each of the two absent or
\* empty) authenticate fails with AuthMalformedCallback and no exchange is
\* started.
C10_ClassifyNonEmpty ==
    [][ \A r \in CallbackRequests :
          (Request(r) /\ ~isResolved) =>
             IF r.error \notin {NoValue, ""}
             THEN outcome' = "AuthDenied" /\ exchanges' = exchanges
             ELSE IF r.code \notin {NoValue, ""}
             THEN outcome' = "pending" /\ exchanges' = exchanges + 1
                  /\ inflight' = inflight + 1
             ELSE outcome' = "AuthMalformedCallback" /\ exchanges' = exchanges ]_vars

\* C10 witness: a first request carrying both an error and a code was
\* handled while pending and the session is DENIED with no exchange.
C10_Witness ==
    /\ firstCb.pending
    /\ firstCb.req.error = "access_denied"
    /\ firstCb.req.code = "c1"
    /\ outcome = "AuthDenied"
    /\ exchanges = 0

\* C11 (as stated): a request whose path is not exactly /oauth2callback
\* (also one that merely begins with it) gets a 404 and leaves the outcome,
\* the deadline timer, the listener and the credential file unchanged.
C11_OnlyReservedPath ==
    [][ \A r \in Requests :
          (r.path # "/oauth2callback" /\ Request(r)) =>
             /\ status' = 404
             /\ UNCHANGED <<outcome, isResolved, timer, srv, file, creds,
                            exchanges, inflight>> ]_vars

\* C12: when the port is in use, authenticate fails with PortInUse and
\* nothing else: no timer is ever started, no consent URL emitted, no
\* listener bound, no connection accepted, and the credential file is
\* unchanged.
C12_PortInUse ==
    portBusy =>
        /\ outcome \in {"pending", "PortInUse"}
        /\ (outcome = "PortInUse" => signals = 1)
        /\ srv = "created"
        /\ timer = "unset"
        /\ ~urlEmitted
        /\ conns = 0
        /\ file = file0

\* C12 witness: the bind failed and authenticate has rejected with PortInUse.
C12_Witness ==
    /\ portBusy
    /\ outcome = "PortInUse"
    /\ signals = 1
    /\ now > 0

(* ------------------------------------------------ claims: refreshIfNeeded *)
\* The lookahead window the specification states, in milliseconds.
FiveMinutesMs == 5 * 60 * 1000

\* C13: a record that has an access token but no expiry timestamp is judged
\* as needing refresh whatever its other fields are: refreshIfNeeded never
\* returns false for it.
C13_AbsentExpiryNeverFresh ==
    (calls > 0 /\ Truthy(rec0.access_token) /\ rec0.expiry_date = NoNumber)
        => rresult # "false"

C13_Witness ==
    /\ calls > 0
    /\ Truthy(rec0.access_token)
    /\ rec0.expiry_date = NoNumber
    /\ rresult = "true"
    /\ file # file0

\* C14: for a record with an access token whose expiry is more than five
\* minutes after now, refreshIfNeeded returns false without side effects: no
\* refresh exchange, no write of the credential file, in-memory credentials
\* unchanged, with or without a refresh token.
C14_FreshNoEffect ==
    (/\ calls > 0
     /\ Truthy(rec0.access_token)
     /\ rec0.expiry_date # NoNumber
     /\ rec0.expiry_date > callAt * MsPerTick + FiveMinutesMs)
        => /\ rresult = "false"
           /\ rpc = "idle"
           /\ rexch = 0
           /\ rwrites = 0
           /\ file = file0
           /\ creds = rec0

C14_Witness ==
    /\ calls > 0
    /\ callAt > 0
    /\ Truthy(rec0.access_token)
    /\ ~Truthy(rec0.refresh_token)
    /\ rec0.expiry_date > callAt * MsPerTick + FiveMinutesMs
    /\ rresult = "false"

\* The latest call started from a record with an access token and a refresh
\* token whose expiry is at most five minutes after the call's now (boundary
\* included) or already past.
DueCall ==
    /\ calls > 0
    /\ Truthy(rec0.access_token)
    /\ Truthy(rec0.refresh_token)
    /\ rec0.expiry_date # NoNumber
    /\ rec0.expiry_date <= callAt * MsPerTick + FiveMinutesMs

\* The credential file holds the record of response resp received at the
\* current now: its access token, and its expiry when it states a lifetime.
WrittenFrom(f, resp) ==
    /\ f.kind = "json"
    /\ f.value.access_token = resp.access_token
    /\ resp.expires_in # NoNumber =>
           /\ f.value.expiry_date = now * MsPerTick + resp.expires_in * 1000
           /\ f.value.expiry_date > rec0.expiry_date

C17_NoCredentials ==
    (calls > 0 /\ ~Truthy(rec0.access_token)) =>
        /\ rresult = "NoCredentials"
        /\ rpc = "idle"
        /\ rexch = 0
        /\ rwrites = 0
        /\ file = file0
        /\ creds = rec0

C17_Witness ==
    /\ calls > 0
    /\ ~Truthy(rec0.access_token)
    /\ Truthy(rec0.refresh_token)
    /\ rec0.expiry_date > callAt * MsPerTick + FiveMinutesMs
    /\ rresult = "NoCredentials"

\* The record needs refresh in the specification's words: expiry absent, past,
\* or within five minutes of the call's now.
StatedNeedsRefresh ==
    \/ rec0.expiry_date = NoNumber
    \/ rec0.expiry_date <= callAt * MsPerTick + FiveMinutesMs

\* C18: refreshIfNeeded fails with RefreshTokenMissing exactly when the record
\* has an access token, needs refresh (expiry absent, past, or within five
\* minutes) and has no refresh token; no refresh exchange is attempted and the
\* credential file is not written.
C18_RefreshTokenMissing ==
    calls > 0 =>
        /\ rresult = "RefreshTokenMissing" <=>
               /\ Truthy(rec0.access_token)
               /\ StatedNeedsRefresh
               /\ ~Truthy(rec0.refresh_token)
        /\ rresult = "RefreshTokenMissing" =>
               /\ rpc = "idle"
               /\ rexch = 0
               /\ rwrites = 0
               /\ file = file0
               /\ creds = rec0

C18_Witness ==
    /\ calls > 0
    /\ callAt > 0
    /\ Truthy(rec0.access_token)
    /\ ~Truthy(rec0.refresh_token)
    /\ rec0.expiry_date = callAt * MsPerTick + FiveMinutesMs
    /\ rresult = "RefreshTokenMissing"

\* C19: when the provider rejects the refresh attempt, refreshIfNeeded fails
\* with RefreshFailed, makes no further refresh attempt, and leaves the stored
\* credential record exactly as it was before the call.
C19_RefreshFailed ==
    (calls > 0 /\ rresp # NoResponse /\ ~rresp.ok) =>
        /\ rresult = "RefreshFailed"
        /\ rpc = "idle"
        /\ rexch = 1
        /\ rwrites = 0
        /\ file = file0
        /\ creds = rec0

C19_Witness ==
    /\ calls > 0
    /\ rresp # NoResponse
    /\ ~rresp.ok
    /\ rresult = "RefreshFailed"
    /\ rexch = 1
    /\ file.kind = "json"
    /\ file = file0
    /\ now > callAt

\* C20 (as stated): the credential record is never partially written: at every
\* point during and after a save, interrupted or failed midway included, the
\* credential file holds either the complete previous record or the complete
\* new record.
C20_NeverPartial ==
    calls > 0 =>
        \/ file = file0
        \/ file = JSONstringify(creds)

(* ------------------------------------------------------------ entry points *)
\* The programs that use the module: the server entry point started normally
\* ("start") or with the auth command ("auth"), the status command and the
\* setup wizard.
Entries == {"start", "auth", "status", "wizard"}

\* What the file at oauthPath may be: missing, not JSON, JSON with neither an
\* installed nor a web sub-object, a service-account key, a web-application
\* client, an installed-application (desktop) client.
KeyShapes == {"absent", "badjson", "neither", "service_account", "web", "installed"}

\* Fault variant: a key file that does not parse is let through.
KeyLoadResultLenient(k) ==
    CASE k = "absent" -> "MissingFile"
      [] k \in {"neither", "service_account"} -> "MalformedKeyFile"
      [] OTHER -> "ok"

\* loadOAuthClient up to the port search: existsSync, JSON.parse,
\* keysContent.installed || keysContent.web.
KeyLoadResult(k) ==
    CASE k = "absent" -> "MissingFile"
      [] k = "badjson" -> "MalformedKeyFile"
      [] k \in {"neither", "service_account"} -> "MalformedKeyFile"
      [] OTHER -> "ok"

\* validateOAuthFile(filePath).valid, for complete key files of each shape.
validateOAuthFile(k) == k = "installed"

\* Credential files an entry point may find.
EntryRecords ==
    [access_token : {"A0"}, refresh_token : {NoValue, "R0"},
     expiry_date : {NoNumber, MsPerTick, MaxExpiryTicks * MsPerTick}]

EntryFiles == {FileAbsent, FileCorrupt} \cup { JSONstringify(r) : r \in EntryRecords }

\* Permission bits of a file created by fs.writeFileSync without a mode
\* option: 0o666 masked by the process umask.
CreateMode(u) == IF u = "077" THEN "0600" ELSE "0644"

\* Everything but the credential store and the entry point's own state.
sessionOnlyVars == <<now, path, parentExists, portBusy, srv, conns, timer, armedAt,
                     isResolved, outcome, signals, urlEmitted, inflight, exchanges,
                     writes, nreq, handled, firstCb, status, refreshVars, toolVars>>

\* A process is started: any entry point, key file, port occupancy, umask and
\* credential file; a credential file that exists was left by the wizard.
EntryInit ==
    /\ entry \in Entries
    /\ keys \in KeyShapes
    /\ bound \in [Ports -> BOOLEAN]
    /\ umask \in {"022", "077"}
    /\ file \in EntryFiles
    /\ file0 = file
    /\ mode = IF file = FileAbsent THEN "none" ELSE "0600"
    /\ now \in {0, MaxNow}
    /\ creds = EmptyCreds
    /\ mpc = "main"
    /\ idx = 0
    /\ probed = << >>
    /\ held = {}
    /\ port = 0
    /\ callbackPort = 0
    /\ mresult = "none"
    /\ authCalls = 0
    /\ gateCalls = 0
    /\ serving = FALSE
    /\ url = NoUrl
    /\ listenPort = 0
    /\ path = "posix"
    /\ parentExists = TRUE
    /\ portBusy = FALSE
    /\ srv = "created"
    /\ conns = 0
    /\ timer = "unset"
    /\ armedAt = 0
    /\ isResolved = FALSE
    /\ outcome = "pending"
    /\ signals = 0
    /\ urlEmitted = FALSE
    /\ inflight = 0
    /\ exchanges = 0
    /\ writes = 0
    /\ nreq = 0
    /\ handled = 0
    /\ firstCb = [req |-> NoRequest, pending |-> FALSE]
    /\ status = 0
    /\ RefreshIdle
    /\ ToolIdle

\* The credential file after the wizard's cleanup(): a file that does not
\* parse is removed; the other entry points leave it alone.
FileAfterFailure == IF entry = "wizard" /\ file = FileCorrupt THEN FileAbsent ELSE file

\* The entry point ends with an error: process.exit(1) in its catch block.
Fail(err) ==
    /\ mpc' = "exit"
    /\ mresult' = err
    /\ file' = FileAfterFailure
    /\ mode' = IF FileAfterFailure = FileAbsent THEN "none" ELSE mode

procVars == <<entry, bound, umask>>
probeVars == <<idx, probed, held, port>>
authMainVars == <<authCalls, url, listenPort>>
gateMainVars == <<gateCalls, serving>>

\* status.js: the token is shown as Expired when expiry_date is set and not
\* after now, and as Valid otherwise.
StatusClass(c, t) ==
    IF c.expiry_date # NoNumber /\ c.expiry_date # 0 /\ t * MsPerTick >= c.expiry_date
    THEN "Expired"
    ELSE "Valid"

\* status.js main() before it loads the client: it stops when the key file
\* or the credential file is missing, when the credential file does not
\* parse, and when the token is expired and there is no refresh token.
StatusChecks ==
    /\ entry = "status"
    /\ mpc = "main"
    /\ LET c == file.value
           r == CASE keys = "absent" -> "KeysMissing"
                  [] file = FileAbsent -> "NotAuthenticated"
                  [] file.kind # "json" -> "CorruptCredentials"
                  [] /\ StatusClass(c, now) = "Expired"
                     /\ ~Truthy(c.refresh_token) -> "ExpiredNoRefreshToken"
                  [] OTHER -> "ok"
       IN /\ mpc' = IF r = "ok" THEN "load" ELSE "exit"
          /\ mresult' = IF r = "ok" THEN mresult ELSE r
    /\ UNCHANGED <<sessionOnlyVars, procVars, probeVars, authMainVars, gateMainVars,
                   keys, mode, file, file0, creds, callbackPort>>

\* Wizard main() up to the prompt for the key file: handleExistingSetup asks
\* before it runs again over an existing setup; with a key file but no
\* credentials it goes on to the grant flow with the key file as it is.
WizardSetup(answer) ==
    /\ entry = "wizard"
    /\ mpc = "main"
    /\ LET hasCredentials == file # FileAbsent
           hasOAuthKeys == keys # "absent"
       IN IF hasCredentials \/ hasOAuthKeys
          THEN IF ~answer
               THEN /\ mpc' = "exit"
                    /\ mresult' = "cancelled"
               ELSE /\ mpc' = IF hasCredentials THEN "prompt" ELSE "load"
                    /\ mresult' = mresult
          ELSE /\ answer
               /\ mpc' = "prompt"
               /\ mresult' = mresult
    /\ UNCHANGED <<sessionOnlyVars, procVars, probeVars, authMainVars, gateMainVars,
                   keys, mode, file, file0, creds, callbackPort>>

\* promptForOAuthPath and setupConfigDirectory: the user names a file of
\* shape src (or gives up); it is validated, asked for again when it is not
\* valid, and copied to oauthPath when it is.
WizardPrompt(src) ==
    /\ entry = "wizard"
    /\ mpc = "prompt"
    /\ IF src = "cancel"
       THEN /\ mpc' = "exit"
            /\ mresult' = "cancelled"
            /\ keys' = keys
       ELSE IF validateOAuthFile(src)
       THEN /\ mpc' = "load"
            /\ mresult' = mresult
            /\ keys' = src
       ELSE UNCHANGED <<mpc, mresult, keys>>
    /\ UNCHANGED <<sessionOnlyVars, procVars, probeVars, authMainVars, gateMainVars,
                   mode, file, file0, creds, callbackPort>>

\* loadOAuthClient from its entry to the call of findAvailablePort. The
\* server entry point calls it first thing in main().
LoadKeys ==
    /\ \/ mpc = "load"
       \/ mpc = "main" /\ entry \in {"start", "auth"}
    /\ IF KeyLoadResult(keys) = "ok"
       THEN /\ mpc' = "probe"
            /\ idx' = 1
            /\ UNCHANGED <<mresult, file, mode>>
       ELSE /\ Fail(KeyLoadResult(keys))
            /\ idx' = idx
    /\ UNCHANGED <<sessionOnlyVars, procVars, authMainVars, gateMainVars,
                   keys, file0, creds, callbackPort, probed, held, port>>

\* Fault variant: candidates are tried from the end of the list.
CandidateAtReversed(i) == OAUTH_PORTS[Len(OAUTH_PORTS) + 1 - i]

\* for (const port of OAUTH_PORTS): the i-th candidate.
CandidateAt(i) == OAUTH_PORTS[i]

\* isPortAvailable(port) up to the outcome of server.listen(port): on a bound
\* port the error handler resolves false and the loop of findAvailablePort
\* goes to the next candidate, or throws after the last one; on a free port
\* the probe listener is bound.
ProbeListen ==
    /\ mpc = "probe"
    /\ LET p == CandidateAt(idx) IN
       /\ probed' = Append(probed, p)
       /\ IF bound[p]
          THEN /\ held' = held
               /\ IF idx < Len(OAUTH_PORTS)
                  THEN /\ idx' = idx + 1
                       /\ UNCHANGED <<mpc, mresult, file, mode>>
                  ELSE /\ Fail("NoPortAvailable")
                       /\ idx' = idx
          ELSE /\ held' = held \cup {p}
               /\ mpc' = "probing"
               /\ UNCHANGED <<idx, mresult, file, mode>>
    /\ UNCHANGED <<sessionOnlyVars, procVars, authMainVars, gateMainVars,
                   keys, file0, creds, callbackPort, port>>

\* Fault variant: the probe listener is not closed.
ReleasedKeepsListener(h, p) == h

\* server.close() of the probe listener on port p.
Released(h, p) == h \ {p}

\* The 'listening' handler of isPortAvailable: server.close(), resolve(true);
\* findAvailablePort returns the candidate.
ProbeListening ==
    /\ mpc = "probing"
    /\ held' = Released(held, CandidateAt(idx))
    /\ port' = CandidateAt(idx)
    /\ mpc' = "selected"
    /\ UNCHANGED <<sessionOnlyVars, procVars, authMainVars, gateMainVars,
                   keys, mode, file, file0, creds, callbackPort, idx, probed, mresult>>

\* loadOAuthClient after findAvailablePort: the client is built with
\* http://localhost:<port>/oauth2callback and the credential file, when it
\* exists and parses, is loaded into it.
ClientLoaded ==
    /\ mpc = "selected"
    /\ callbackPort' = port
    /\ creds' = LoadCredentials(file)
    /\ mpc' = "loaded"
    /\ UNCHANGED <<sessionOnlyVars, procVars, probeVars, authMainVars, gateMainVars,
                   keys, mode, file, file0, mresult>>

\* Fault variant: every entry point runs the grant flow.
UsesAuthenticatorAlways(e) == TRUE

\* The entry points that call authenticate: the server entry point when
\* process.argv[2] === 'auth', and the wizard's runAuthFlow.
UsesAuthenticator(e) == e \in {"auth", "wizard"}

\* Fault variant: the caller passes no port.
AuthPortArgumentOmitted(p) == 0

\* The port argument the callers give authenticate: oauth2Client._authPort in
\* main, the port of loadOAuthClient's result in runAuthFlow.
AuthPortArgument(p) == p

\* authenticate(oauth2Client, credentialsPath, port = 3000).
ListenPortFor(arg) == IF arg = 0 THEN 3000 ELSE arg

\* Fault variant: the send scope is requested as well.
generateAuthUrlWithSend(cb) ==
    [redirect |-> cb, scope |-> {"gmail.modify", "gmail.send"},
     access_type |-> "offline", prompt |-> "consent"]

\* oauth2Client.generateAuthUrl({access_type, scope, prompt}) of a client
\* built with the redirect URL of port cb.
generateAuthUrl(cb) ==
    [redirect |-> cb, scope |-> {"gmail.modify"},
     access_type |-> "offline", prompt |-> "consent"]

\* Fault variant: when the port was taken, another candidate is bound.
AuthListenFallsBack(busy) ==
    /\ mpc = "loaded"
    /\ UsesAuthenticator(entry)
    /\ authCalls' = authCalls + 1
    /\ IF busy
       THEN \E q \in Ports \ {port} : listenPort' = q
       ELSE listenPort' = ListenPortFor(AuthPortArgument(port))
    /\ url' = generateAuthUrl(callbackPort)
    /\ mpc' = "consent"
    /\ UNCHANGED <<mresult, file, mode>>
    /\ UNCHANGED <<sessionOnlyVars, procVars, probeVars, gateMainVars,
                   keys, file0, creds, callbackPort>>

\* The entry point calls authenticate: the callback listener is bound to the
\* port argument, or the call fails when the port was taken since the probe;
\* the consent URL is generated and shown.
AuthListen(busy) ==
    /\ mpc = "loaded"
    /\ UsesAuthenticator(entry)
    /\ authCalls' = authCalls + 1
    /\ IF busy
       THEN /\ Fail("PortInUse")
            /\ UNCHANGED <<url, listenPort>>
       ELSE /\ listenPort' = ListenPortFor(AuthPortArgument(port))
            /\ url' = generateAuthUrl(callbackPort)
            /\ mpc' = "consent"
            /\ UNCHANGED <<mresult, file, mode>>
    /\ UNCHANGED <<sessionOnlyVars, procVars, probeVars, gateMainVars,
                   keys, file0, creds, callbackPort>>

\* authenticate settles (the session modelled by Listen .. ListenerError,
\* seen from its caller). Granted: the tokens are saved, the listener is
\* closed, the wizard restricts the file to its owner, and the entry point
\* ends. Otherwise the entry point ends with the error.
AuthSettle(resp) ==
    /\ mpc = "consent"
    /\ listenPort' = 0
    /\ IF resp.ok
       THEN /\ creds' = TokensOf(resp, now)
            /\ file' = JSONstringify(TokensOf(resp, now))
            /\ mode' = IF entry = "wizard" THEN "0600"
                       ELSE IF file = FileAbsent THEN CreateMode(umask) ELSE mode
            /\ mpc' = "exit"
            /\ mresult' = "ok"
       ELSE /\ Fail("AuthFailed")
            /\ creds' = creds
    /\ UNCHANGED <<sessionOnlyVars, procVars, probeVars, gateMainVars,
                   keys, file0, callbackPort, authCalls, url>>

\* The entry point goes on after the Refresh Gate: the server entry point
\* connects the tool server, the status command prints the account and ends.
AfterGate ==
    /\ serving' = (entry # "status")
    /\ mpc' = IF entry = "status" THEN "exit" ELSE "serving"
    /\ mresult' = IF entry = "status" THEN "ok" ELSE mresult

\* Fault variant: a throw of refreshIfNeeded is swallowed and the entry
\* point goes on.
GateCallIgnoresFailure ==
    /\ mpc = "loaded"
    /\ ~UsesAuthenticator(entry)
    /\ gateCalls' = gateCalls + 1
    /\ LET d == RefreshDecision(creds, now) IN
       IF d = "refresh"
       THEN /\ mpc' = "gate"
            /\ UNCHANGED <<serving, mresult, file, mode>>
       ELSE AfterGate /\ UNCHANGED <<file, mode>>
    /\ UNCHANGED <<sessionOnlyVars, procVars, probeVars, authMainVars,
                   keys, file0, creds, callbackPort>>

\* The entry point calls refreshIfNeeded, which runs to its return, its
\* throw or its await of refreshAccessToken.
GateCall ==
    /\ mpc = "loaded"
    /\ ~UsesAuthenticator(entry)
    /\ gateCalls' = gateCalls + 1
    /\ LET d == RefreshDecision(creds, now) IN
       CASE d = "false" -> AfterGate /\ UNCHANGED <<file, mode>>
         [] d = "refresh" -> /\ mpc' = "gate"
                             /\ UNCHANGED <<serving, mresult, file, mode>>
         [] OTHER -> Fail(d) /\ serving' = serving
    /\ UNCHANGED <<sessionOnlyVars, procVars, probeVars, authMainVars,
                   keys, file0, creds, callbackPort>>

\* refreshIfNeeded after its await: the refreshed record is saved over the
\* existing file, or the call throws and the entry point ends.
GateDone(resp) ==
    /\ mpc = "gate"
    /\ IF resp.ok
       THEN /\ creds' = RefreshedCredentials(resp, creds, now)
            /\ file' = JSONstringify(RefreshedCredentials(resp, creds, now))
            /\ mode' = IF file = FileAbsent THEN CreateMode(umask) ELSE mode
            /\ AfterGate
       ELSE /\ Fail("RefreshFailed")
            /\ UNCHANGED <<creds, serving>>
    /\ UNCHANGED <<sessionOnlyVars, procVars, probeVars, authMainVars,
                   keys, file0, callbackPort, gateCalls>>

EntryNext ==
    \/ StatusChecks
    \/ \E answer \in BOOLEAN : WizardSetup(answer)
    \/ \E src \in KeyShapes \cup {"cancel"} : WizardPrompt(src)
    \/ LoadKeys
    \/ ProbeListen
    \/ ProbeListening
    \/ ClientLoaded
    \/ \E busy \in BOOLEAN : AuthListen(busy)
    \/ \E resp \in Responses : AuthSettle(resp)
    \/ GateCall
    \/ \E resp \in Responses : GateDone(resp)

EntrySpec == EntryInit /\ [][EntryNext]_vars

(* --------------------------------------------------- claims: entry points *)
\* C21: a credential file that exists but is not valid JSON is treated as
\* absent, not as a crash: the client loads with no credentials set, a
\* following refreshIfNeeded reports NoCredentials, and the auth command can
\* still run the grant flow and replace the file.
C21_CorruptAsAbsent ==
    (file0 = FileCorrupt /\ entry \in {"start", "auth"}) =>
        /\ mresult # "CorruptCredentials"
        /\ mpc \in {"loaded", "consent", "gate"} => creds = EmptyCreds
        /\ mpc # "gate"
        /\ gateCalls > 0 =>
               /\ mresult = "NoCredentials"
               /\ ~serving
               /\ file = FileCorrupt
        /\ mresult = "ok" =>
               /\ entry = "auth"
               /\ authCalls = 1
               /\ file.kind = "json"
               /\ creds = file.value

C21_Witness ==
    /\ file0 = FileCorrupt
    /\ entry = "auth"
    /\ mresult = "ok"
    /\ file.kind = "json"
    /\ Truthy(file.value.access_token)

\* Position of port q in the candidate list.
IndexOf(q) == CHOOSE i \in DOMAIN OAUTH_PORTS : OAUTH_PORTS[i] = q

\* C22: for every free/bound assignment of the candidates 3000, 3001, 3002
\* with at least one free, findAvailablePort returns the first free candidate
\* in list order, probes strictly in that order one at a time, probes nothing
\* after the candidate it returns, and has released its probe listener.
C22_FirstFreePort ==
    /\ \E k \in 0..Len(OAUTH_PORTS) : probed = SubSeq(OAUTH_PORTS, 1, k)
    /\ Cardinality(held) <= 1
    /\ (\E p \in Ports : ~bound[p]) => mresult # "NoPortAvailable"
    /\ port # 0 =>
           /\ port \in Ports
           /\ ~bound[port]
           /\ \A j \in 1..(IndexOf(port) - 1) : bound[OAUTH_PORTS[j]]
           /\ probed = SubSeq(OAUTH_PORTS, 1, IndexOf(port))
           /\ held = {}

C22_Witness ==
    /\ port = 3001
    /\ bound[3000]
    /\ ~bound[3002]
    /\ probed = <<3000, 3001>>
    /\ held = {}
    /\ mpc = "loaded"

\* C23: when all candidate ports are bound the Port Selector fails with
\* NoPortAvailable and leaves no port bound by this process; whenever the
\* selector has returned, with a port or an error, no probe listener of it
\* remains bound.
C23_NoPortAvailable ==
    /\ mpc \notin {"probe", "probing"} => held = {}
    /\ (\A p \in Ports : bound[p]) =>
           /\ port = 0
           /\ held = {}
           /\ listenPort = 0
           /\ Len(probed) = Len(OAUTH_PORTS) =>
                  /\ mresult = "NoPortAvailable"
                  /\ mpc = "exit"
    /\ mresult = "NoPortAvailable" => \A p \in Ports : bound[p]

C23_Witness ==
    /\ \A p \in Ports : bound[p]
    /\ mresult = "NoPortAvailable"
    /\ probed = OAUTH_PORTS
    /\ held = {}
    /\ entry = "auth"

\* C24: in a run of the server entry point authenticate is invoked at most
\* once and only for the auth command, and then the Refresh Gate and the
\* tool server are never started; on a normal start authenticate is never
\* invoked: a grant session never exists alongside normal operation.
C24_AuthenticateOnce ==
    entry \in {"start", "auth"} =>
        /\ authCalls <= 1
        /\ authCalls = 1 =>
               /\ entry = "auth"
               /\ gateCalls = 0
               /\ ~serving
        /\ entry = "start" =>
               /\ authCalls = 0
               /\ listenPort = 0
               /\ url = NoUrl
        /\ (serving \/ gateCalls > 0) => (authCalls = 0 /\ listenPort = 0)

C24_Witness ==
    /\ entry = "auth"
    /\ authCalls = 1
    /\ mpc = "exit"
    /\ mresult = "ok"
    /\ gateCalls = 0
    /\ ~serving

\* C25 (as stated): the Port Selector feeds only the Authenticator: a normal
\* server start and the status command do not probe or bind any callback port
\* and reach the Refresh Gate whether ports 3000-3002 are free or all bound.
C25_GateNeedsNoPort ==
    (entry \in {"start", "status"} /\ keys = "installed") =>
        /\ probed = << >>
        /\ held = {}
        /\ mresult # "NoPortAvailable"

\* C26 (as stated): key material is only ever loaded from an
\* installed-application shape: no grant flow and no refresh is run with web
\* or service-account key material, on any entry path.
C26_InstalledKeysOnly ==
    (authCalls > 0 \/ gateCalls > 0) => keys = "installed"

\* The loader has had no effect: no port probed or bound, the credential file
\* neither read into the client nor written.
LoaderNoEffect ==
    /\ probed = << >>
    /\ held = {}
    /\ port = 0
    /\ file = file0
    /\ creds = EmptyCreds
    /\ authCalls = 0
    /\ gateCalls = 0

\* C27: the Key Material Loader fails with MissingFile when the key file does
\* not exist and with MalformedKeyFile when it is not valid JSON or has neither
\* an installed nor a web sub-object; in every such failure it has caused no
\* side effects.
C27_KeyFileFailures ==
    /\ mresult = "MissingFile" => (keys = "absent" /\ LoaderNoEffect)
    /\ mresult = "MalformedKeyFile" =>
           (keys \in {"badjson", "neither", "service_account"} /\ LoaderNoEffect)
    /\ (mpc \in {"probe", "probing", "selected", "loaded"} \/ probed # << >>) =>
           keys \in {"installed", "web"}

C27_Witness ==
    /\ mresult = "MalformedKeyFile"
    /\ keys = "badjson"
    /\ entry = "start"
    /\ file.kind = "json"
    /\ \A p \in Ports : ~bound[p]
    /\ LoaderNoEffect

\* C28 (as stated): after every successful save of the credential record, by
\* a grant through the auth command, a grant through the wizard or a silent
\* refresh, the credential file is readable only by its owner, also when the
\* file did not exist before the save.
C28_OwnerOnly ==
    (keys = "installed" /\ file.kind = "json" /\ file # file0) => mode = "0600"

\* C29: in every grant flow the redirect URL carried in the consent URL names
\* exactly the port authenticate has bound its callback listener to, for
\* every port the Port Selector can return and every caller of authenticate.
C29_RedirectIsBoundPort ==
    /\ mpc = "consent" =>
           /\ listenPort \in Ports
           /\ url.redirect = listenPort
           /\ listenPort = port
    /\ url # NoUrl => (url.redirect = port /\ port \in Ports)
    /\ listenPort # 0 => mpc = "consent"

C29_Witness ==
    /\ mpc = "consent"
    /\ entry = "wizard"
    /\ listenPort = 3002
    /\ url.redirect = 3002
    /\ bound[3000]
    /\ bound[3001]

\* C30: every consent URL authenticate emits requests only the message-modify
\* scope (no send, no settings scope), with offline access and a forced
\* consent prompt; no execution requests any other scope.
C30_ModifyScopeOnly ==
    url # NoUrl =>
        /\ url.scope = {"gmail.modify"}
        /\ url.access_type = "offline"
        /\ url.prompt = "consent"

C30_Witness ==
    /\ mpc = "consent"
    /\ entry = "auth"
    /\ url.scope = {"gmail.modify"}
    /\ url.access_type = "offline"
    /\ url.prompt = "consent"

\* C32 (as stated): a record whose expiry timestamp is absent is treated as
\* already expired by every consumer: the status command does not classify it
\* as Valid, and its expired/valid classification agrees with the Refresh
\* Gate's needs-refresh decision for the same record.
C32_AbsentExpiryIsExpired ==
    (/\ entry = "status"
     /\ mpc # "main"
     /\ file0.kind = "json"
     /\ file0.value.expiry_date = NoNumber) =>
        /\ StatusClass(file0.value, now) # "Valid"
        /\ StatusClass(file0.value, now) = "Expired" <=> NeedsRefresh(file0.value, now)

(* ----------------------------------------- claims: authenticate, continued *)
\* C33 (as stated): within one authenticate call at most one authorization-code
\* exchange is started and at most one write of the credential file occurs,
\* for every interleaving, also when two callback requests carrying a code
\* arrive before the first exchange has completed.
C33_SingleExchange ==
    /\ exchanges <= 1
    /\ writes <= 1

\* C34 (as stated): authenticate reports success if and only if the code
\* exchange succeeded and the new record was written to the credential file,
\* the write preceding the success signal: success implies the record is on
\* disk, and a record written by the call implies the call reported success.
C34_SuccessIffPersisted ==
    /\ outcome = "granted" => (writes >= 1 /\ file.kind = "json")
    /\ writes >= 1 => outcome = "granted"

(* ---------------------------------------- claims: refreshIfNeeded, continued *)
\* C35 (as stated): after a refreshIfNeeded call has returned, successfully
\* or with an error, the credentials held in memory equal the record in the
\* credential file; a call that reports failure has not replaced them.
C35_MemoryEqualsFile ==
    (calls > 0 /\ rpc = "idle") => creds = LoadCredentials(file)

(* ------------------------------------------ claims: entry points, continued *)
\* C37: authenticate binds only the port it is given, the one the Port
\* Selector chose at client-load time: when that port was taken between the
\* probe's release and the bind, the call fails with PortInUse, no listener
\* is bound, no consent URL is shown, and no other candidate is probed or
\* bound by the call.
C37_BindsGivenPortOnly ==
    /\ [](/\ listenPort \in {0, port}
          /\ mresult = "PortInUse" =>
                (listenPort = 0 /\ url = NoUrl /\ authCalls = 1 /\ mpc = "exit"))
    /\ [][authCalls' # authCalls =>
            (probed' = probed /\ held' = held /\ port' = port)]_vars

\* The call failed with PortInUse on a port the probe had found free, while
\* another candidate port is free.
C37_Witness ==
    /\ mresult = "PortInUse"
    /\ ~bound[port]
    /\ \E q \in Ports \ {port} : ~bound[q]
    /\ listenPort = 0

\* C38: on a normal server start the tool server handles requests only after
\* refreshIfNeeded has returned without error in the same process (the loaded
\* record needed no refresh, or it was refreshed and saved); when the
\* Refresh Gate fails the process exits with the error and never serves.
C38_ServeAfterGate ==
    /\ serving =>
          /\ entry = "start"
          /\ gateCalls = 1
          /\ mresult = "none"
          /\ LET d == RefreshDecision(LoadCredentials(file0), now) IN
                \/ d = "false" /\ creds = LoadCredentials(file0) /\ file = file0
                \/ d = "refresh" /\ file = JSONstringify(creds) /\ creds.access_token = "A1"
    /\ mresult \in {"NoCredentials", "RefreshTokenMissing", "RefreshFailed"} =>
          (~serving /\ mpc = "exit" /\ gateCalls = 1)

\* The tool server serves after a refresh that the gate performed and saved.
C38_Witness ==
    /\ serving
    /\ entry = "start"
    /\ RefreshDecision(LoadCredentials(file0), now) = "refresh"
    /\ file # file0

(* ----------------------------------------- claims: authenticate, liveness *)
\* Clock steps from setTimeout to the deadline.
DeadlineTicks == OAUTH_TIMEOUT_MS \div MsPerTick

\* C36: every authenticate call whose listener bound (with the deadline
\* inside the clock's range) eventually returns to its caller, and has
\* returned once the deadline timer has fired, whether or not a callback
\* arrives or a started exchange completes; fairness of the clock and of the
\* timer is all that is needed.
C36_EventuallyReturns ==
    /\ [](timer = "fired" => outcome # "pending")
    /\ (srv = "listening" /\ armedAt + DeadlineTicks <= MaxNow) ~> (outcome # "pending")

\* The call returned by the deadline alone while an exchange was still
\* in flight.
C36_Witness ==
    /\ outcome = "AuthTimeout"
    /\ timer = "fired"
    /\ inflight > 0

(* ------------------------------------------------------- batch_modify_emails *)
\* Most message ids in one batch_modify_emails request.
MaxItems == 3

\* JavaScript numbers are modelled in halves: the integer h stands for h / 2.
Unit == 2

\* .default(100) of the schema and `|| 50` of the handler.
DefaultBatchSize == 100
FallbackBatchSize == 50

\* batchSize arguments of a request: left out, not a number, or a number
\* (in halves) between -MaxItems and MaxItems.
RawBatchSizes ==
    {[kind |-> "absent", value |-> 0], [kind |-> "text", value |-> 0]}
    \cup [kind : {"number"}, value : (0 - Unit * MaxItems)..(Unit * MaxItems)]

\* BatchModifyEmailsSchema.parse: batchSize is z.number().optional()
\* .default(100): any number is accepted, a missing one becomes 100, anything
\* else is a parse error.
BatchModifyEmailsSchema(raw) ==
    IF raw.kind = "absent" THEN [ok |-> TRUE, batchSize |-> Unit * DefaultBatchSize]
    ELSE IF raw.kind = "number" THEN [ok |-> TRUE, batchSize |-> raw.value]
    ELSE [ok |-> FALSE, batchSize |-> 0]

\* validatedArgs.batchSize || 50: zero is falsy.
EffectiveBatchSize(b) == IF b = 0 THEN Unit * FallbackBatchSize ELSE b

\* ToIntegerOrInfinity, applied by Array.prototype.slice to its arguments:
\* truncation towards zero.
ToIntegerOrInfinity(h) == IF h >= 0 THEN h \div Unit ELSE 0 - ((0 - h) \div Unit)

\* slice's clamping of a relative index into 0..len.
SliceIndex(k, len) ==
    IF k < 0 THEN (IF len + k < 0 THEN 0 ELSE len + k)
    ELSE (IF k > len THEN len ELSE k)

\* items.slice(start, end): the positions (1-based) of the items it returns.
Slice(len, start, end) ==
    LET from == SliceIndex(ToIntegerOrInfinity(start), len)
        to == SliceIndex(ToIntegerOrInfinity(end), len)
    IN { p \in 1..len : from < p /\ p <= to }

\* Every loop index at or below the floor gives the same (empty) slice, so
\* the index is kept there; the loop's iterations are counted modulo 2
\* (turn).
IFloor == 0 - Unit * (MaxItems + 1)

oauthVars == <<now, path, parentExists, portBusy, srv, conns, timer, armedAt,
               isResolved, outcome, signals, urlEmitted, inflight, creds, file, file0,
               exchanges, writes, nreq, handled, firstCb, status,
               rpc, rresult, rec0, callAt, rexch, rwrites, rresp, calls,
               entry, keys, bound, umask, mode, mpc, idx, probed, held, port,
               callbackPort, mresult, authCalls, gateCalls, serving, url, listenPort>>

\* The tool server is serving (main has passed the Refresh Gate); no tool
\* request has been handled yet.
BatchInit ==
    /\ now = 0
    /\ path = "posix"
    /\ parentExists = TRUE
    /\ portBusy = FALSE
    /\ file = JSONstringify([access_token |-> "A0", refresh_token |-> "R0",
                             expiry_date |-> MaxExpiryTicks * MsPerTick])
    /\ file0 = file
    /\ creds = LoadCredentials(file)
    /\ srv = "created"
    /\ conns = 0
    /\ timer = "unset"
    /\ armedAt = 0
    /\ isResolved = FALSE
    /\ outcome = "pending"
    /\ signals = 0
    /\ urlEmitted = FALSE
    /\ inflight = 0
    /\ exchanges = 0
    /\ writes = 0
    /\ nreq = 0
    /\ handled = 0
    /\ firstCb = [req |-> NoRequest, pending |-> FALSE]
    /\ status = 0
    /\ RefreshIdle
    /\ MainIdle
    /\ ToolIdle

\* The batch_modify_emails handler up to the loop of processBatches: the
\* arguments are parsed (a parse error is returned as an error result by the
\* outer catch), the batch size is chosen, the lists start empty.
BatchCall(len, raw) ==
    /\ batch.pc = "idle"
    /\ LET parsed == BatchModifyEmailsSchema(raw) IN
       batch' = IF parsed.ok
                THEN [pc |-> "loop", n |-> len, raw |-> raw,
                      batchSize |-> EffectiveBatchSize(parsed.batchSize), i |-> 0,
                      turn |-> 0,
                      attempted |-> {}, successes |-> {}, failures |-> {}]
                ELSE [BatchIdle EXCEPT !.pc = "rejected", !.n = len, !.raw = raw]
    /\ UNCHANGED <<oauthVars, mail>>

\* One iteration of the for loop of processBatches: the batch is sliced and
\* handed to processFn; when that throws, each item of the batch is tried
\* alone and lands in successes or in failures; then i += batchSize.
BatchIterate ==
    /\ batch.pc = "loop"
    /\ batch.i < Unit * batch.n
    /\ LET b == Slice(batch.n, batch.i, batch.i + batch.batchSize)
           next == batch.i + batch.batchSize
       IN \E failed \in SUBSET b :
             batch' = [batch EXCEPT
                          !.attempted = @ \cup b,
                          !.successes = @ \cup (b \ failed),
                          !.failures = @ \cup failed,
                          !.i = IF next < IFloor THEN IFloor ELSE next,
                          !.turn = (@ + 1) % 2]
    /\ UNCHANGED <<oauthVars, mail>>

\* The loop condition is false: processBatches returns its two lists.
BatchReturn ==
    /\ batch.pc = "loop"
    /\ ~(batch.i < Unit * batch.n)
    /\ batch' = [batch EXCEPT !.pc = "done"]
    /\ UNCHANGED <<oauthVars, mail>>

BatchNext ==
    \/ \E len \in 0..MaxItems, raw \in RawBatchSizes : BatchCall(len, raw)
    \/ BatchIterate
    \/ BatchReturn

BatchSpec == BatchInit /\ [][BatchNext]_vars

\* The handler's loop is run by the event loop for as long as it can step.
BatchFairSpec == BatchSpec /\ WF_vars(BatchIterate) /\ WF_vars(BatchReturn)

(* ------------------------------------------------ claims: batch_modify_emails *)
\* C39 (as stated): processBatches terminates for every list of message ids
\* and every batchSize the request schema accepts (zero, negative and
\* fractional values included), after attempting each message id at least
\* once.
C39_BatchTerminates ==
    /\ [](batch.pc = "done" => batch.attempted = 1..batch.n)
    /\ (batch.pc = "loop") ~> (batch.pc = "done")

(* ---------------------------------------------------------------- send_email *)
\* Most send_email calls in one run.
MaxSends == 2

\* The account's address as getProfile returns it, the same address in
\* capitals, and somebody else's address.
Self == "me@x.com"
SelfUpper == "ME@X.COM"
Other == "eve@y.org"
AddressTokens == {Self, SelfUpper, Other}

\* A recipient string is a sequence of tokens: addresses, a display name,
\* white space, "<", ">" and ",".
RecipientEntries ==
    { <<Self>>,
      <<" ", SelfUpper, " ">>,
      <<Other>>,
      <<"name", " ", "<", Self, ">">>,
      <<"name", " ", "<", Other, ">">>,
      <<Other, ",", " ", "<", Self, ">">>,
      <<"<", Self, ">", ",", " ", "<", Other, ">">> }

\* Lists of recipient strings a request may carry in to, cc and bcc.
RecipientLists == {<< >>} \cup { <<e>> : e \in RecipientEntries }
SendArgs == [to : RecipientLists, cc : RecipientLists, bcc : RecipientLists]

\* String.prototype.toLowerCase.
toLowerCase(r) == [k \in DOMAIN r |-> IF r[k] = SelfUpper THEN Self ELSE r[k]]

\* String.prototype.trim: white space at both ends is dropped.
RECURSIVE trim(_)
trim(r) ==
    IF r = << >> THEN r
    ELSE IF Head(r) = " " THEN trim(Tail(r))
    ELSE IF r[Len(r)] = " " THEN trim(SubSeq(r, 1, Len(r) - 1))
    ELSE r

\* recipient.match(/<(.+)>/): the text between the first "<" that has a ">"
\* at least one character later and the last such ">"; << >> when the
\* pattern does not match.
emailMatch(r) ==
    LET opens == { a \in DOMAIN r : r[a] = "<" /\ \E b \in DOMAIN r : b >= a + 2 /\ r[b] = ">" }
    IN IF opens = {} THEN << >>
       ELSE LET a == CHOOSE x \in opens : \A y \in opens : x <= y
                closes == { b \in DOMAIN r : b >= a + 2 /\ r[b] = ">" }
                b == CHOOSE x \in closes : \A y \in closes : y <= x
            IN SubSeq(r, a + 1, b - 1)

\* (emailMatch[1] || recipient).toLowerCase().trim()
recipientEmail(r) ==
    trim(toLowerCase(IF emailMatch(r) # << >> THEN emailMatch(r) ELSE r))

\* [...to, ...(cc || []), ...(bcc || [])]
allRecipients(args) == args.to \o args.cc \o args.bcc

\* The handler's loop over allRecipients finds no entry to refuse.
PassesSelfCheck(args) ==
    \A k \in DOMAIN allRecipients(args) :
        recipientEmail(allRecipients(args)[k]) = <<Self>>

\* The tokens of r in the same comma-separated part as position k.
PartOf(r, k) ==
    { j \in DOMAIN r :
        \A c \in DOMAIN r : (r[c] = "," => ~((j <= c /\ c <= k) \/ (k <= c /\ c <= j))) }

\* The mailboxes a recipient header value names for the mail service: in
\* each comma-separated part the address in angle brackets, or the bare
\* address when the part has none; case is not significant.
Addresses(r) ==
    { toLowerCase(<<r[k]>>)[1] :
        k \in { k \in DOMAIN r :
                  /\ r[k] \in AddressTokens
                  /\ (\E j \in PartOf(r, k) : r[j] = "<") =>
                        (\E a, b \in PartOf(r, k) : a < k /\ k < b /\ r[a] = "<" /\ r[b] = ">") } }

\* createEmailMessage / createEmailWithNodemailer: the To, Cc and Bcc
\* headers of the message carry the entries of to, cc and bcc.
createEmailMessage(args) == { allRecipients(args)[k] : k \in DOMAIN allRecipients(args) }

\* The message builder may refuse (throw on) an entry that is not one plain
\* address.
BuilderMayThrow(args) ==
    \E k \in DOMAIN allRecipients(args) :
        allRecipients(args)[k] \notin {<<Self>>, <<SelfUpper>>, <<Other>>}

\* The tool server is serving; no tool request has been handled yet.
SendInit == BatchInit

\* The send_email handler up to message construction: parse, getProfile, and
\* the loop that returns an error result for the first recipient whose
\* extracted address is not the account's.
SendCall(args) ==
    /\ mail.pc = "idle"
    /\ mail.calls < MaxSends
    /\ mail' = IF PassesSelfCheck(args)
               THEN [mail EXCEPT !.pc = "build", !.args = args, !.message = {},
                                 !.result = "pending", !.calls = @ + 1]
               ELSE [mail EXCEPT !.args = args, !.message = {},
                                 !.result = "refused", !.calls = @ + 1]
    /\ UNCHANGED <<oauthVars, batch>>

\* The message is built, or the builder throws and the outer catch returns
\* an error result.
SendBuild(built) ==
    /\ mail.pc = "build"
    /\ built \/ BuilderMayThrow(mail.args)
    /\ mail' = IF built
               THEN [mail EXCEPT !.pc = "send", !.message = createEmailMessage(mail.args)]
               ELSE [mail EXCEPT !.pc = "idle", !.result = "error"]
    /\ UNCHANGED <<oauthVars, batch>>

\* gmail.users.messages.send({raw}): the service delivers the message to
\* every mailbox its recipient headers name; the handler reports success.
SendRequest ==
    /\ mail.pc = "send"
    /\ mail' = [mail EXCEPT
                   !.pc = "idle",
                   !.delivered = @ \cup UNION { Addresses(r) : r \in mail.message },
                   !.result = "sent"]
    /\ UNCHANGED <<oauthVars, batch>>

SendNext ==
    \/ \E args \in SendArgs : SendCall(args)
    \/ \E built \in BOOLEAN : SendBuild(built)
    \/ SendRequest

SendSpec == SendInit /\ [][SendNext]_vars

(* --------------------------------------------------------- claims: send_email *)
\* C31 (as stated): send_email issues a send request only when every
\* recipient in to, cc and bcc is the account's own address; a call with an
\* entry that would deliver elsewhere sends nothing and returns an error
\* result, so no sequence of calls delivers mail to anyone but the account.
C31_SendOnlyToSelf ==
    /\ mail.delivered \subseteq {Self}
    /\ mail.pc = "send" =>
          \A k \in DOMAIN allRecipients(mail.args) :
              Addresses(allRecipients(mail.args)[k]) \subseteq {Self}

====
